---------------------------- MODULE Spec2Model ----------------------------
(***************************************************************************)
(* Model of word_grid_finder.py: the predicate classes (Contains, Length,  *)
(* Double), get_valid_words, format_output, the batch entry point          *)
(* (handle_args / main) and the interactive session (Options /             *)
(* WordGridTui).                                                           *)
(*                                                                         *)
(* A Python str is modelled as a sequence of code points, so "ab" is       *)
(* <<97, 98>>; comparison of strings is comparison of code points, as in   *)
(* Python.                                                                 *)
(***************************************************************************)
EXTENDS Integers, Sequences, FiniteSets, TLC

VARIABLES
    pc,           \* position of the running entry point
    args,         \* the parsed CLIArgs / WGFArgs record
    file_text,    \* content of the word-list file (args.word_list)
    columns,      \* shutil.get_terminal_size(...).columns
    tests,        \* list[Test]: main's tests / Options._tests
    word_list,    \* list[str]: main's word_list / Options._wordlist
    reversed,     \* the reversed argument of get_valid_words
    valid_words,  \* result of get_valid_words / argument of format_output
    line_len,     \* the line_len argument of format_output / Options._width
    output,       \* result of format_output: stdout / TextArea.text
    fields,       \* values of the Input and Checkbox widgets of Options
    shown,        \* history: the values of fields read by the last get_tests that returned
    edits,        \* history: the number of edits the user has made
    outcome       \* how the entry point ended

vars == <<pc, args, file_text, columns, tests, word_list, reversed,
          valid_words, line_len, output, fields, shown, edits, outcome>>

(***************************************************************************)
(* Characters                                                              *)
(***************************************************************************)
SPACE == 32
NEWLINE == 10
LOWER_A == 97
LOWER_Z == 122
UPPER_A == LOWER_A - 32
MINUS == 45
PLUS == 43
DIGIT_0 == 48

(***************************************************************************)
(* str methods                                                             *)
(***************************************************************************)
Max(a, b) == IF a >= b THEN a ELSE b

Reverse(s) == [i \in 1..Len(s) |-> s[Len(s) + 1 - i]]

\* word.startswith(sub)
startswith(word, sub) ==
    /\ Len(sub) <= Len(word)
    /\ SubSeq(word, 1, Len(sub)) = sub

\* word.endswith(sub)
endswith(word, sub) ==
    /\ Len(sub) <= Len(word)
    /\ SubSeq(word, Len(word) - Len(sub) + 1, Len(word)) = sub

\* sub occurs in word at position i (1-based)
OccursAt(word, sub, i) ==
    /\ i >= 1
    /\ i + Len(sub) - 1 <= Len(word)
    /\ SubSeq(word, i, i + Len(sub) - 1) = sub

\* sub in word
contains(word, sub) == \E i \in 1..(Len(word) + 1) : OccursAt(word, sub, i)

\* word.count(sub): the number of non-overlapping occurrences, scanning from
\* the left; count("") is len(word) + 1.
RECURSIVE CountFrom(_, _, _)
CountFrom(word, sub, i) ==
    IF i + Len(sub) - 1 > Len(word) THEN 0
    ELSE IF OccursAt(word, sub, i)
         THEN 1 + CountFrom(word, sub, i + Len(sub))
         ELSE CountFrom(word, sub, i + 1)

count(word, sub) ==
    IF sub = <<>> THEN Len(word) + 1 ELSE CountFrom(word, sub, 1)

\* s < t for str: lexicographic on code points, a proper prefix is smaller
RECURSIVE StrLess(_, _)
StrLess(s, t) ==
    IF t = <<>> THEN FALSE
    ELSE IF s = <<>> THEN TRUE
    ELSE IF Head(s) # Head(t) THEN Head(s) < Head(t)
    ELSE StrLess(Tail(s), Tail(t))

\* text.split(sep) for a separator of one character
RECURSIVE SplitFrom(_, _, _)
SplitFrom(text, sep, part) ==
    IF text = <<>> THEN <<part>>
    ELSE IF Head(text) = sep
         THEN <<part>> \o SplitFrom(Tail(text), sep, <<>>)
         ELSE SplitFrom(Tail(text), sep, Append(part, Head(text)))

split(text, sep) == SplitFrom(text, sep, <<>>)

Lines(text) == split(text, NEWLINE)

\* text.splitlines(), for texts whose only line break is "\n": no line for
\* the empty text, and none after a final line break
splitlines(text) ==
    LET parts == Lines(text)
    IN  IF parts[Len(parts)] = <<>> THEN SubSeq(parts, 1, Len(parts) - 1)
        ELSE parts

\* sep.join(strings) for a separator of one character
RECURSIVE join(_, _)
join(strings, sep) ==
    IF strings = <<>> THEN <<>>
    ELSE IF Len(strings) = 1 THEN Head(strings)
    ELSE Head(strings) \o <<sep>> \o join(Tail(strings), sep)

\* str(n) for an int
RECURSIVE Digits(_)
Digits(n) ==
    IF n < 10 THEN <<DIGIT_0 + n>>
    ELSE Digits(n \div 10) \o <<DIGIT_0 + (n % 10)>>

str(n) == IF n < 0 THEN <<MINUS>> \o Digits(0 - n) ELSE Digits(n)

IsDigit(c) == c \in DIGIT_0..(DIGIT_0 + 9)

RECURSIVE DigitsValue(_, _)
DigitsValue(digits, acc) ==
    IF digits = <<>> THEN acc
    ELSE DigitsValue(Tail(digits), 10 * acc + (Head(digits) - DIGIT_0))

\* int(text) for a text of signs and digits: an optional sign and at least
\* one digit, anything else raises ValueError
int(text) ==
    LET signed == text # <<>> /\ Head(text) \in {MINUS, PLUS}
        digits == IF signed THEN Tail(text) ELSE text
        valid  == digits # <<>> /\ \A i \in 1..Len(digits) : IsDigit(digits[i])
    IN  IF ~valid THEN [raised |-> TRUE, value |-> 0]
        ELSE [raised |-> FALSE,
              value |-> IF signed /\ Head(text) = MINUS
                        THEN 0 - DigitsValue(digits, 0)
                        ELSE DigitsValue(digits, 0)]

(***************************************************************************)
(* The Test classes                                                        *)
(***************************************************************************)
Contains(substring, starts, ends, multiple, does_not) ==
    [type |-> "Contains", substring |-> substring, starts |-> starts,
     ends |-> ends, multiple |-> multiple, does_not |-> does_not]

Length(min_len, max_len) ==
    [type |-> "Length", min_len |-> min_len, max_len |-> max_len]

Double == [type |-> "Double"]

\* Contains.check
ContainsCheck(self, word) ==
    IF self.starts THEN startswith(word, self.substring)
    ELSE IF self.ends THEN endswith(word, self.substring)
    ELSE IF self.multiple THEN count(word, self.substring) > 1
    ELSE IF self.does_not THEN ~contains(word, self.substring)
    ELSE contains(word, self.substring)

\* Length.check
LengthCheck(self, word) ==
    self.min_len <= Len(word) /\ Len(word) <= self.max_len

\* Double.check: re.search(r"([a-z])\1", word)
DoubleCheck(self, word) ==
    \E i \in 1..(Len(word) - 1) :
        /\ word[i] \in LOWER_A..LOWER_Z
        /\ word[i + 1] = word[i]

\* test.check(word), dispatched on the class of test
check(test, word) ==
    CASE test.type = "Contains" -> ContainsCheck(test, word)
      [] test.type = "Length"   -> LengthCheck(test, word)
      [] test.type = "Double"   -> DoubleCheck(test, word)

(***************************************************************************)
(* get_valid_words                                                         *)
(***************************************************************************)
\* any() where the code has all()
AnyTest(tsts, word) == \E i \in 1..Len(tsts) : check(tsts[i], word)

\* all(test.check(word) for test in tests)
All(tsts, word) == \A i \in 1..Len(tsts) : check(tsts[i], word)

\* the generator (word for word in word_list if all(...))
RECURSIVE Filter(_, _)
Filter(tsts, words) ==
    IF words = <<>> THEN <<>>
    ELSE IF All(tsts, Head(words))
         THEN <<Head(words)>> \o Filter(tsts, Tail(words))
         ELSE Filter(tsts, Tail(words))

\* key=lambda x: (len(x), x), compared as tuples
KeyLess(a, b) ==
    \/ Len(a) < Len(b)
    \/ Len(a) = Len(b) /\ StrLess(a, b)

\* Insert x into the sorted sequence s after every element whose key is not
\* greater (a stable insertion).
RECURSIVE Insert(_, _)
Insert(x, s) ==
    IF s = <<>> THEN <<x>>
    ELSE IF KeyLess(x, Head(s)) THEN <<x>> \o s
    ELSE <<Head(s)>> \o Insert(x, Tail(s))

\* The stable ascending sort of list.sort, elements taken left to right.
RECURSIVE StableSort(_, _)
StableSort(s, acc) ==
    IF s = <<>> THEN acc ELSE StableSort(Tail(s), Insert(Head(s), acc))

\* reverse applied to the length alone: longest first, ascending within a
\* length
SortedLongestFirstOnly(s, rev) ==
    LET asc == StableSort(s, <<>>)
        byLen(n) == SelectSeq(asc, LAMBDA w : Len(w) = n)
        RECURSIVE Down(_)
        Down(n) == IF n < 0 THEN <<>> ELSE byLen(n) \o Down(n - 1)
    IN  IF rev /\ asc # <<>> THEN Down(Len(asc[Len(asc)])) ELSE asc

\* sorted(iterable, key=..., reverse=rev): with reverse the list is reversed,
\* sorted ascending and reversed again, which keeps the sort stable.
sorted(s, rev) ==
    IF rev THEN Reverse(StableSort(Reverse(s), <<>>))
    ELSE StableSort(s, <<>>)

get_valid_words(rev, tsts, words) == sorted(Filter(tsts, words), rev)

(***************************************************************************)
(* format_output                                                           *)
(***************************************************************************)
Spaces(n) == [i \in 1..n |-> SPACE]

\* f"{word:>{longest}}": right-justified in a field of width longest, never
\* truncated
RJust(word, longest) == Spaces(Max(0, longest - Len(word))) \o word

RECURSIVE MaxLen(_)
MaxLen(words) ==
    IF words = <<>> THEN 0 ELSE Max(Len(Head(words)), MaxLen(Tail(words)))

\* the line ended only once it is longer than line_len
LineIsFullLate(curr_line, longest, ll) == Len(curr_line) > ll

\* the test that ends the current line: len(curr_line) + longest > line_len
LineIsFull(curr_line, longest, ll) == Len(curr_line) + longest > ll

\* the for loop, from the state (output, curr_line) over the remaining words
RECURSIVE FormatLoop(_, _, _, _, _)
FormatLoop(words, longest, ll, out, curr_line) ==
    IF words = <<>> THEN [output |-> out, curr_line |-> curr_line]
    ELSE LET line == curr_line \o RJust(Head(words), longest)
         IN  IF LineIsFull(line, longest, ll)
             THEN FormatLoop(Tail(words), longest, ll,
                             out \o line \o <<NEWLINE>>, <<>>)
             ELSE FormatLoop(Tail(words), longest, ll, out, line)

\* return output, without the unfinished last line
format_output_without_last_line(wordlist, ll) ==
    IF wordlist = <<>> THEN <<>>
    ELSE FormatLoop(wordlist, MaxLen(wordlist) + 2, ll, <<>>, <<>>).output

\* format_output(wordlist, line_len) with the default separator "\n"
format_output(wordlist, ll) ==
    IF wordlist = <<>> THEN <<>>
    ELSE LET loop == FormatLoop(wordlist, MaxLen(wordlist) + 2, ll, <<>>, <<>>)
         IN  loop.output \o loop.curr_line

\* Options.__init__: math.floor(width * 0.7) - 2.  On floats this is
\* (7 * width) \div 10 - 2 for every width below 90.
OptionsWidth(width) == (7 * width) \div 10 - 2

(***************************************************************************)
(* handle_args                                                             *)
(***************************************************************************)
DEFAULT_MAX_LEN == 1000000

\* map(Contains, strings)
ContainsEach(strings) ==
    [i \in 1..Len(strings) |->
        Contains(strings[i], FALSE, FALSE, FALSE, FALSE)]

\* [Contains(s, does_not=True) for s in strings]
DoesNotContainEach(strings) ==
    [i \in 1..Len(strings) |->
        Contains(strings[i], FALSE, FALSE, FALSE, TRUE)]

\* x or d, for an int x
OrInt(x, d) == IF x # 0 THEN x ELSE d

\* the tests handle_args builds from the parsed arguments a
handle_args(a) ==
    (IF a.startswith # <<>>
        THEN <<Contains(a.startswith, TRUE, FALSE, FALSE, FALSE)>> ELSE <<>>)
    \o (IF a.endswith # <<>>
        THEN <<Contains(a.endswith, FALSE, TRUE, FALSE, FALSE)>> ELSE <<>>)
    \o (IF a.maxlen # 0 \/ a.minlen # 0
        THEN <<Length(OrInt(a.minlen, 1), OrInt(a.maxlen, DEFAULT_MAX_LEN))>>
        ELSE <<>>)
    \o (IF a.contains # <<>> THEN ContainsEach(a.contains) ELSE <<>>)
    \o (IF a.multiple # <<>>
        THEN <<Contains(a.multiple, FALSE, FALSE, TRUE, FALSE)>> ELSE <<>>)
    \o (IF a.double THEN <<Double>> ELSE <<>>)
    \o (IF a.not_contain # <<>> THEN DoesNotContainEach(a.not_contain)
        ELSE <<>>)

\* the test of main left out
NoTestsIgnored(tsts) == FALSE

\* main: if not tests
NoTests(tsts) == tsts = <<>>

\* main: if not (word_list := wordlist.read_text().splitlines())
NoWordList(words) == words = <<>>

(***************************************************************************)
(* Options                                                                 *)
(***************************************************************************)
\* Options.compose: the initial values of the widgets
compose(a) ==
    [contains         |-> join(a.contains, SPACE),
     starts_with      |-> a.startswith,
     ends_with        |-> a.endswith,
     contains_multiple |-> a.multiple,
     double           |-> a.double,
     does_not_contain |-> join(a.not_contain, SPACE),
     min_len          |-> IF a.minlen # 0 THEN str(a.minlen) ELSE <<>>,
     max_len          |-> IF a.maxlen # 0 THEN str(a.maxlen) ELSE <<>>]

\* int(value or 0)
IntOfField(value) ==
    IF value = <<>> THEN [raised |-> FALSE, value |-> 0] ELSE int(value)

\* the list get_tests builds from the widget values f
TestsOfFields(f) ==
    (IF f.contains # <<>> THEN ContainsEach(split(f.contains, SPACE))
        ELSE <<>>)
    \o (IF f.starts_with # <<>>
        THEN <<Contains(f.starts_with, TRUE, FALSE, FALSE, FALSE)>> ELSE <<>>)
    \o (IF f.ends_with # <<>>
        THEN <<Contains(f.ends_with, FALSE, TRUE, FALSE, FALSE)>> ELSE <<>>)
    \o (IF f.contains_multiple # <<>>
        THEN <<Contains(f.contains_multiple, FALSE, FALSE, TRUE, FALSE)>>
        ELSE <<>>)
    \o (IF f.double THEN <<Double>> ELSE <<>>)
    \o (IF f.does_not_contain # <<>>
        THEN DoesNotContainEach(split(f.does_not_contain, SPACE)) ELSE <<>>)
    \o (IF f.min_len # <<>> \/ f.max_len # <<>>
        THEN <<Length(OrInt(IntOfField(f.min_len).value, 1),
                      OrInt(IntOfField(f.max_len).value, DEFAULT_MAX_LEN))>>
        ELSE <<>>)

\* the new tests appended to self._tests
get_tests_extending(self_tests, f) ==
    IF (f.min_len # <<>> \/ f.max_len # <<>>)
       /\ (IntOfField(f.min_len).raised \/ IntOfField(f.max_len).raised)
    THEN [raised |-> TRUE, tests |-> self_tests]
    ELSE [raised |-> FALSE, tests |-> self_tests \o TestsOfFields(f)]

\* Options.get_tests: the value of self._tests afterwards, and whether int()
\* raised ValueError, in which case self._tests is not assigned
get_tests(self_tests, f) ==
    IF (f.min_len # <<>> \/ f.max_len # <<>>)
       /\ (IntOfField(f.min_len).raised \/ IntOfField(f.max_len).raised)
    THEN [raised |-> TRUE, tests |-> self_tests]
    ELSE [raised |-> FALSE, tests |-> TestsOfFields(f)]

\* the words ranked longest first
update_valid_words_reversed(tsts, words, width) ==
    format_output(get_valid_words(TRUE, tsts, words), width)

\* Options.update_valid_words: the new text of the text box
update_valid_words(tsts, words, width) ==
    format_output(get_valid_words(FALSE, tsts, words), width)

(***************************************************************************)
(* Inputs                                                                  *)
(***************************************************************************)
MaxWords == 3
MaxTests == 2
MaxGridWords == 3

SeqsUpTo(S, n) == UNION {[1..k -> S] : k \in 0..n}

\* The words "", "A", "a", "Aa", "aa": "A" < "a" as code points.
Words ==
    { <<>>, <<UPPER_A>>, <<LOWER_A>>, <<UPPER_A, LOWER_A>>,
      <<LOWER_A, LOWER_A>> }

WordLists == SeqsUpTo(Words, MaxWords)

\* One test of every class and every mode of Contains; the last one sets two
\* flags at once.
TestUniverse ==
    { Contains(<<LOWER_A>>, FALSE, FALSE, FALSE, FALSE),
      Contains(<<LOWER_A>>, TRUE, FALSE, FALSE, FALSE),
      Contains(<<LOWER_A>>, FALSE, TRUE, FALSE, FALSE),
      Contains(<<LOWER_A>>, FALSE, FALSE, TRUE, FALSE),
      Contains(<<LOWER_A>>, FALSE, FALSE, FALSE, TRUE),
      Contains(<<UPPER_A>>, FALSE, TRUE, FALSE, TRUE),
      Length(1, 1),
      Double }

TestLists == SeqsUpTo(TestUniverse, MaxTests)

MaxColumns == 10
MaxFileLen == 3
MaxEdits == 3

\* "" and "a"
OptionalLetter == {<<>>, <<LOWER_A>>}

\* the arguments with no option given
DefaultArgs ==
    [startswith |-> <<>>, endswith |-> <<>>, minlen |-> 0, maxlen |-> 0,
     contains |-> <<>>, multiple |-> <<>>, double |-> FALSE,
     not_contain |-> <<>>, reversed |-> FALSE]

\* the arguments of the batch runs
BatchArgs ==
    [startswith : OptionalLetter, endswith : OptionalLetter,
     minlen : {0, 1}, maxlen : {0, 2},
     contains : {<<>>, <<<<LOWER_A>>>>}, multiple : OptionalLetter,
     double : BOOLEAN, not_contain : {<<>>, <<<<UPPER_A>>>>},
     reversed : BOOLEAN]

\* word-list files of lines of "a"
BatchFiles == SeqsUpTo({NEWLINE, LOWER_A}, MaxFileLen)

\* the arguments the two entry points are compared on; the lists hold "",
\* "a", "A" and "a A"
BuildArgs ==
    [startswith : OptionalLetter, endswith : OptionalLetter,
     minlen : {0, 2}, maxlen : {0, 1},
     contains : {<<>>, <<<<LOWER_A>>>>, <<<<LOWER_A>>, <<UPPER_A>>>>,
                 <<<<>>>>, <<<<LOWER_A, SPACE, UPPER_A>>>>},
     multiple : OptionalLetter, double : BOOLEAN,
     not_contain : {<<>>, <<<<UPPER_A>>>>, <<<<>>>>,
                    <<<<LOWER_A, SPACE, UPPER_A>>>>},
     reversed : {FALSE}]

\* the arguments the interactive sessions start from
TuiArgs ==
    { DefaultArgs,
      [DefaultArgs EXCEPT !.startswith = <<LOWER_A>>, !.minlen = 1],
      [DefaultArgs EXCEPT !.double = TRUE, !.not_contain = <<<<UPPER_A>>>>] }

\* the word lists "A", "a", "aa" and "aaa", "Aa", "a"
TuiFiles ==
    { <<UPPER_A, NEWLINE, LOWER_A, NEWLINE, LOWER_A, LOWER_A, NEWLINE>>,
      <<LOWER_A, LOWER_A, LOWER_A, NEWLINE, UPPER_A, LOWER_A, NEWLINE,
        LOWER_A>> }

\* what the user types: "", "a", "a A" in Contains; "", "A" in Does not
\* contain; "", "2", "-", "-1" in the length fields
ContainsTexts == {<<>>, <<LOWER_A>>, <<LOWER_A, SPACE, UPPER_A>>}
DoesNotContainTexts == {<<>>, <<UPPER_A>>}
LengthTexts == {<<>>, <<DIGIT_0 + 2>>, <<MINUS>>, <<MINUS, DIGIT_0 + 1>>}

NoArgs == [none |-> TRUE]
NoFields == [none |-> TRUE]

(***************************************************************************)
(* Specification of get_valid_words called on any tests and word list      *)
(***************************************************************************)
InitValid ==
    /\ pc = "get_valid_words"
    /\ word_list \in WordLists
    /\ tests \in TestLists
    /\ reversed \in BOOLEAN
    /\ valid_words = <<>>
    /\ args = NoArgs
    /\ file_text = <<>>
    /\ columns = 0
    /\ line_len = 0
    /\ output = <<>>
    /\ fields = NoFields
    /\ shown = NoFields
    /\ edits = 0
    /\ outcome = "running"

CallGetValidWords ==
    /\ pc = "get_valid_words"
    /\ valid_words' = get_valid_words(reversed, tests, word_list)
    /\ pc' = "returned"
    /\ UNCHANGED <<args, file_text, columns, tests, word_list, reversed,
                   line_len, output, fields, shown, edits, outcome>>

NextValid == CallGetValidWords

SpecValid == InitValid /\ [][NextValid]_vars

\* the number of positions of s holding w
Occurrences(s, w) == Cardinality({i \in 1..Len(s) : s[i] = w})

\* C1: get_valid_words returns exactly the words of the word list, with
\* multiplicity, for which every test's check is true.
C1_ExactlyTheMatchingWords ==
    pc = "returned" =>
        \A w \in Words :
            Occurrences(valid_words, w) =
                IF \A i \in 1..Len(tests) : check(tests[i], w)
                THEN Occurrences(word_list, w) ELSE 0

C1_Witness ==
    /\ pc = "returned"
    /\ Len(tests) >= 2
    /\ \E i, j \in 1..Len(word_list) :
          /\ i < j
          /\ word_list[i] = word_list[j]
          /\ Occurrences(valid_words, word_list[i]) = 2
    /\ \E i \in 1..Len(word_list) : Occurrences(valid_words, word_list[i]) = 0

IsAscending(s) ==
    \A i, j \in 1..Len(s) : i < j => ~KeyLess(s[j], s[i])

NoDuplicates(s) ==
    \A i, j \in 1..Len(s) : i # j => s[i] # s[j]

\* C2: with reversed = FALSE the result ascends by (length, word); with
\* reversed = TRUE the result of a duplicate-free word list is the reverse of
\* the result with reversed = FALSE.
C2_RankOrder ==
    pc = "returned" =>
        /\ ~reversed => IsAscending(valid_words)
        /\ reversed /\ NoDuplicates(word_list) =>
              /\ valid_words = Reverse(get_valid_words(FALSE, tests, word_list))
              /\ \A i, j \in 1..Len(valid_words) :
                    i < j => KeyLess(valid_words[j], valid_words[i])


C2_Witness ==
    /\ pc = "returned"
    /\ reversed
    /\ NoDuplicates(word_list)
    /\ Len(valid_words) = 3
    /\ Len(valid_words[1]) = Len(valid_words[2])
    /\ StrLess(valid_words[2], valid_words[1])
    /\ Len(valid_words[3]) < Len(valid_words[2])

(***************************************************************************)
(* Specification of format_output called on any word sequence, with the    *)
(* line lengths main and Options pass for a terminal of 1..MaxColumns      *)
(* columns                                                                 *)
(***************************************************************************)
\* The words "", "a", " a", "Aa", "aaa"
GridWords ==
    { <<>>, <<LOWER_A>>, <<SPACE, LOWER_A>>, <<UPPER_A, LOWER_A>>,
      <<LOWER_A, LOWER_A, LOWER_A>> }

InitFormat ==
    /\ pc = "format_output"
    /\ valid_words \in SeqsUpTo(GridWords, MaxGridWords)
    /\ columns \in 1..MaxColumns
    /\ line_len \in {columns, OptionsWidth(columns)}
    /\ output = <<>>
    /\ word_list = <<>>
    /\ tests = <<>>
    /\ reversed = FALSE
    /\ args = NoArgs
    /\ file_text = <<>>
    /\ fields = NoFields
    /\ shown = NoFields
    /\ edits = 0
    /\ outcome = "running"

CallFormatOutput ==
    /\ pc = "format_output"
    /\ output' = format_output(valid_words, line_len)
    /\ pc' = "formatted"
    /\ UNCHANGED <<args, file_text, columns, tests, word_list, reversed,
                   valid_words, line_len, fields, shown, edits, outcome>>

NextFormat == CallFormatOutput

SpecFormat == InitFormat /\ [][NextFormat]_vars

\* the column width: the length of the longest word plus 2
ColumnWidth(words) == MaxLen(words) + 2

LinesAtMost(text, n) ==
    \A i \in 1..Len(Lines(text)) : Len(Lines(text)[i]) <= n

\* C3 as stated: for every non-empty word sequence and every line length, no
\* line is longer than line_len + column_width - 1.
C3_Original ==
    pc = "formatted" /\ valid_words # <<>> =>
        LinesAtMost(output, line_len + ColumnWidth(valid_words) - 1)

\* C3 amended: the bound holds for every line length of at least 1, and when
\* some word is longer than the line length every word is on a line of its
\* own.
C3_LineLengthBound ==
    pc = "formatted" /\ valid_words # <<>> /\ line_len >= 1 =>
        /\ LinesAtMost(output, line_len + ColumnWidth(valid_words) - 1)
        /\ MaxLen(valid_words) > line_len =>
              \A i \in 1..Len(valid_words) :
                  Lines(output)[i] =
                      RJust(valid_words[i], ColumnWidth(valid_words))

C3_Witness ==
    /\ pc = "formatted"
    /\ line_len >= 1
    /\ Len(valid_words) = 3
    /\ MaxLen(valid_words) > line_len
    /\ Len(Lines(output)) >= 3
    /\ Len(Lines(output)[1]) = line_len + ColumnWidth(valid_words) - 1

\* a field with its padding removed
RECURSIVE LStrip(_)
LStrip(field) ==
    IF field # <<>> /\ Head(field) = SPACE THEN LStrip(Tail(field)) ELSE field

\* the fields of width w of one line, stripped, left to right
RECURSIVE FieldsOf(_, _)
FieldsOf(line, w) ==
    IF line = <<>> THEN <<>>
    ELSE IF Len(line) <= w THEN <<LStrip(line)>>
    ELSE <<LStrip(SubSeq(line, 1, w))>> \o FieldsOf(SubSeq(line, w + 1, Len(line)), w)

RECURSIVE FieldsOfLines(_, _)
FieldsOfLines(lines, w) ==
    IF lines = <<>> THEN <<>>
    ELSE FieldsOf(Head(lines), w) \o FieldsOfLines(Tail(lines), w)

\* the words read back from a grid whose columns are w wide
ReadGrid(text, w) == FieldsOfLines(Lines(text), w)

\* C4 as stated: for any word sequence and any line length of at least the
\* column width, the words read back from the grid are the original sequence.
C4_Original ==
    pc = "formatted" /\ line_len >= ColumnWidth(valid_words) =>
        ReadGrid(output, ColumnWidth(valid_words)) = valid_words

StartsWithSpace(word) == word # <<>> /\ Head(word) = SPACE

\* C4 amended: the round trip holds for word sequences none of whose words
\* begins with a space.
C4_RoundTrip ==
    /\ pc = "formatted"
    /\ line_len >= ColumnWidth(valid_words)
    /\ \A i \in 1..Len(valid_words) : ~StartsWithSpace(valid_words[i])
    => ReadGrid(output, ColumnWidth(valid_words)) = valid_words

C4_Witness ==
    /\ pc = "formatted"
    /\ line_len >= ColumnWidth(valid_words)
    /\ Len(valid_words) = 3
    /\ NoDuplicates(valid_words)
    /\ \A i \in 1..Len(valid_words) : ~StartsWithSpace(valid_words[i])
    /\ Len(Lines(output)) = 2
    /\ Len(Lines(output)[2]) = ColumnWidth(valid_words)
    /\ ReadGrid(output, ColumnWidth(valid_words)) = valid_words


(***************************************************************************)
(* Specification of main                                                   *)
(***************************************************************************)
InitBatch ==
    /\ pc = "main"
    /\ args \in BatchArgs
    /\ file_text \in BatchFiles
    /\ columns \in {1, MaxColumns}
    /\ tests = <<>>
    /\ word_list = <<>>
    /\ reversed = FALSE
    /\ valid_words = <<>>
    /\ line_len = 0
    /\ output = <<>>
    /\ fields = NoFields
    /\ shown = NoFields
    /\ edits = 0
    /\ outcome = "running"

\* tests, wordlist, reverse_output = handle_args()
MainHandleArgs ==
    /\ pc = "main"
    /\ tests' = handle_args(args)
    /\ reversed' = args.reversed
    /\ pc' = "read_text"
    /\ UNCHANGED <<args, file_text, columns, word_list, valid_words, line_len,
                   output, fields, shown, edits, outcome>>

\* word_list := wordlist.read_text().splitlines(), and the RuntimeError
\* "Failed to read word list" (the WordListLoadError outcome)
MainReadWordList ==
    /\ pc = "read_text"
    /\ word_list' = splitlines(file_text)
    /\ IF NoWordList(splitlines(file_text))
       THEN pc' = "raised" /\ outcome' = "WordListLoadError"
       ELSE pc' = "check_tests" /\ outcome' = outcome
    /\ UNCHANGED <<args, file_text, columns, tests, reversed, valid_words,
                   line_len, output, fields, shown, edits>>

\* if not tests: the RuntimeError "You didn't specify any constraints!" (the
\* NoConstraintsError outcome)
MainCheckTests ==
    /\ pc = "check_tests"
    /\ IF NoTests(tests)
       THEN pc' = "raised" /\ outcome' = "NoConstraintsError"
       ELSE pc' = "get_valid_words" /\ outcome' = outcome
    /\ UNCHANGED <<args, file_text, columns, tests, word_list, reversed,
                   valid_words, line_len, output, fields, shown, edits>>

\* valid_words = get_valid_words(reverse_output, tests, word_list)
MainGetValidWords ==
    /\ pc = "get_valid_words"
    /\ valid_words' = get_valid_words(reversed, tests, word_list)
    /\ pc' = "print"
    /\ UNCHANGED <<args, file_text, columns, tests, word_list, reversed,
                   line_len, output, fields, shown, edits, outcome>>

\* print(format_output(valid_words, line_len=width))
MainPrint ==
    /\ pc = "print"
    /\ line_len' = columns
    /\ output' = format_output(valid_words, columns) \o <<NEWLINE>>
    /\ pc' = "done"
    /\ outcome' = "printed"
    /\ UNCHANGED <<args, file_text, columns, tests, word_list, reversed,
                   valid_words, fields, shown, edits>>

NextBatch ==
    \/ MainHandleArgs
    \/ MainReadWordList
    \/ MainCheckTests
    \/ MainGetValidWords
    \/ MainPrint

SpecBatch == InitBatch /\ [][NextBatch]_vars

(***************************************************************************)
(* Specification of the interactive session                                *)
(***************************************************************************)
\* the state after WordGridTui(args, wordlist) is constructed and composed
Composed(argSet, fileSet, columnSet) ==
    /\ pc = "composed"
    /\ args \in argSet
    /\ file_text \in fileSet
    /\ columns \in columnSet
    /\ tests = <<>>
    /\ word_list = splitlines(file_text)
    /\ reversed = FALSE
    /\ valid_words = <<>>
    /\ line_len = OptionsWidth(columns)
    /\ output = <<>>
    /\ fields = compose(args)
    /\ shown = NoFields
    /\ edits = 0
    /\ outcome = "running"

InitTui == Composed(TuiArgs, TuiFiles, {MaxColumns, 2 * MaxColumns})

\* self.get_tests() then self.update_valid_words().  A ValueError raised by
\* get_tests leaves the handler before update_valid_words runs; an exception
\* that leaves a handler ends the application.
Refresh ==
    LET got == get_tests(tests, fields)
    IN  IF got.raised
        THEN /\ pc' = "crashed"
             /\ outcome' = "ValueError"
             /\ UNCHANGED <<tests, output, shown>>
        ELSE /\ tests' = got.tests
             /\ output' = update_valid_words(got.tests, word_list, line_len)
             /\ shown' = fields
             /\ pc' = "awaiting"
             /\ outcome' = outcome

\* Options.on_show
OnShow ==
    /\ pc = "composed"
    /\ Refresh
    /\ UNCHANGED <<args, file_text, columns, word_list, reversed, valid_words,
                   line_len, fields, edits>>

\* Options.on_button_pressed
OnButtonPressed ==
    /\ pc = "awaiting"
    /\ Refresh
    /\ UNCHANGED <<args, file_text, columns, word_list, reversed, valid_words,
                   line_len, fields, edits>>

\* WordGridTui.action_refresh (ctrl+r)
ActionRefresh ==
    /\ pc = "awaiting"
    /\ Refresh
    /\ UNCHANGED <<args, file_text, columns, word_list, reversed, valid_words,
                   line_len, fields, edits>>

\* WordGridTui.action_quit
ActionQuit ==
    /\ pc = "awaiting"
    /\ pc' = "exited"
    /\ UNCHANGED <<args, file_text, columns, tests, word_list, reversed,
                   valid_words, line_len, output, fields, shown, edits,
                   outcome>>

\* The user changes the value of one widget; no handler of Options or
\* WordGridTui runs on a change.
Edit(newFields) ==
    /\ pc = "awaiting"
    /\ edits < MaxEdits
    /\ newFields # fields
    /\ fields' = newFields
    /\ edits' = edits + 1
    /\ UNCHANGED <<pc, args, file_text, columns, tests, word_list, reversed,
                   valid_words, line_len, output, shown, outcome>>

EditContains ==
    \E v \in ContainsTexts : Edit([fields EXCEPT !.contains = v])

EditStartsWith ==
    \E v \in OptionalLetter : Edit([fields EXCEPT !.starts_with = v])

EditEndsWith ==
    \E v \in OptionalLetter : Edit([fields EXCEPT !.ends_with = v])

EditContainsMultiple ==
    \E v \in OptionalLetter : Edit([fields EXCEPT !.contains_multiple = v])

ToggleDouble == Edit([fields EXCEPT !.double = ~fields.double])

EditDoesNotContain ==
    \E v \in DoesNotContainTexts : Edit([fields EXCEPT !.does_not_contain = v])

EditMinLen ==
    \E v \in LengthTexts : Edit([fields EXCEPT !.min_len = v])

EditMaxLen ==
    \E v \in LengthTexts : Edit([fields EXCEPT !.max_len = v])

NextTui ==
    \/ OnShow
    \/ OnButtonPressed
    \/ ActionRefresh
    \/ ActionQuit
    \/ EditContains
    \/ EditStartsWith
    \/ EditEndsWith
    \/ EditContainsMultiple
    \/ ToggleDouble
    \/ EditDoesNotContain
    \/ EditMinLen
    \/ EditMaxLen

SpecTui == InitTui /\ [][NextTui]_vars

(***************************************************************************)
(* Specification of the first refresh of a session started from any        *)
(* arguments, to compare its tests with those of handle_args               *)
(***************************************************************************)
InitBuild == Composed(BuildArgs, TuiFiles, {MaxColumns})

NextBuild == OnShow

SpecBuild == InitBuild /\ [][NextBuild]_vars


(***************************************************************************)
(* Properties of main                                                      *)
(***************************************************************************)
\* C6: when the tests built from the arguments are empty and the word list
\* is not, main ends by raising the no-constraints error; it never filters
\* and never writes to standard output.
C6_NoConstraintsError ==
    handle_args(args) = <<>> /\ splitlines(file_text) # <<>> =>
        /\ pc \in {"main", "read_text", "check_tests", "raised"}
        /\ pc = "raised" => outcome = "NoConstraintsError"
        /\ valid_words = <<>>
        /\ output = <<>>

C6_Witness ==
    /\ handle_args(args) = <<>>
    /\ Len(word_list) >= 2
    /\ pc = "raised"
    /\ outcome = "NoConstraintsError"

\* the text holds no character other than line breaks
OnlyLineBreaks(text) == \A i \in 1..Len(text) : text[i] = NEWLINE

\* C9: a word-list file with no non-empty line (an empty file or only blank
\* lines) makes main end with the word-list load error, before any
\* filtering or printing.
C9_BlankFileIsLoadError ==
    pc \in {"raised", "done"} /\ OnlyLineBreaks(file_text) =>
        /\ outcome = "WordListLoadError"
        /\ valid_words = <<>>
        /\ output = <<>>

(***************************************************************************)
(* Properties of the interactive session                                   *)
(***************************************************************************)
\* the text format_output gives for the words passing the tests of the
\* widget values f
Display(f) ==
    format_output(get_valid_words(FALSE, TestsOfFields(f), word_list),
                  line_len)

Malformed(text) ==
    /\ text # <<>>
    /\ \E i \in 1..Len(text) : ~IsDigit(text[i])

\* the widget values with every malformed length field emptied
Cleaned(f) ==
    [f EXCEPT !.min_len = IF Malformed(f.min_len) THEN <<>> ELSE f.min_len,
              !.max_len = IF Malformed(f.max_len) THEN <<>> ELSE f.max_len]

\* C8: a malformed length field is treated as unset: no refresh ends in an
\* error, and the tests are those built with the field empty.
C8_MalformedLengthIsUnset ==
    /\ outcome # "ValueError"
    /\ pc = "awaiting" => tests = TestsOfFields(Cleaned(shown))

IsContains(t) == t.type = "Contains"

\* C10: the tests of the session are exactly those built from the widget
\* values read by the last refresh that completed (no test of a field that
\* was empty then, none kept from earlier refreshes), and the word list is
\* the one loaded at start.
C10_FullRecomputation ==
    /\ word_list = splitlines(file_text)
    /\ pc = "composed" => tests = <<>>
    /\ pc # "composed" =>
          /\ tests = TestsOfFields(shown)
          /\ shown.starts_with = <<>> =>
                \A i \in 1..Len(tests) : IsContains(tests[i]) => ~tests[i].starts
          /\ ~shown.double => \A i \in 1..Len(tests) : tests[i] # Double
          /\ shown.min_len = <<>> /\ shown.max_len = <<>> =>
                \A i \in 1..Len(tests) : tests[i].type # "Length"

C10_Witness ==
    /\ pc = "awaiting"
    /\ args.startswith # <<>>
    /\ args.minlen # 0
    /\ shown.starts_with = <<>>
    /\ shown.min_len = <<>>
    /\ shown.max_len = <<>>
    /\ tests = <<>>
    /\ word_list = splitlines(file_text)

(***************************************************************************)
(* The tests of the two entry points                                       *)
(***************************************************************************)
\* C7: for every arguments record and every word, the tests handle_args
\* builds accept the word iff the tests get_tests builds, from the widgets
\* initialised with the same arguments, accept it.
C7_SameTests ==
    pc = "awaiting" =>
        \A w \in Words : All(tests, w) <=> All(handle_args(args), w)

=============================================================================
